---- MODULE Spec2Model ----
(***************************************************************************)
(* Model of the WhatsApp notice relay (src/src/services/wahaService.ts,    *)
(* src/src/app.ts): the session authentication state machine and the       *)
(* per-chat broadcast pipeline of class WAHAService.                       *)
(*                                                                         *)
(* The program is one cooperative thread; every await is one step of the   *)
(* model and pc names the await the thread is suspended at.  Every remote  *)
(* answer (session status, QR fetch, download, POST) is an input chosen by *)
(* the environment.  Time is in milliseconds.                              *)
(*                                                                         *)
(* WAHAService keeps no mutable field, so the calls of broadcastNotice     *)
(* made by overlapping webhooks share nothing; the model runs them one     *)
(* after the other.  The size test of broadcastNotice (line 257) is kept   *)
(* as the code has it, although downloadPdfWithRetry never returns a       *)
(* buffer that passes it.                                                  *)
(***************************************************************************)
EXTENDS Integers, Sequences, FiniteSets, TLC

\* ---------------------------------------------------------------- bounds
MaxChats == 2

\* The most chats in the configured list under the fair specification.
FairChats == 1

\* ------------------------------------------------------ program constants
maxQrCodeAttempts == 5
qrCodeExpirationTime == 60000
maxStartingWaitTime == 60000
pollInterval == 5000
numOfAttempts == 5
maxSize == 50 * 1024 * 1024
partPause == 2000

\* ------------------------------------------------------------- inputs
\* What the remote service may answer to GET /api/sessions/<name>:
\* a status, a 404, or any other failure.
Responses == {"STARTING", "SCAN_QR_CODE", "WORKING", "FAILED", "404", "ERR"}

\* How long a status query may take: immediate, or as long as one poll pause.
Latencies == {0, pollInterval}

\* Sizes of the downloaded payload: 1 KiB, exactly 50 MiB, one byte over,
\* 120 MiB.
Sizes == {1024, maxSize, maxSize + 1, 120 * 1024 * 1024}

\* What one download attempt may produce: a transport failure or a payload.
DownloadResults == {[ok |-> FALSE, size |-> 0]} \cup {[ok |-> TRUE, size |-> s] : s \in Sizes}

Notices ==
  { [id |-> 42, title |-> "Exam Schedule", date |-> "2024-08-01", url |-> "https://host/exam.pdf"],
    [id |-> 7, title |-> "Holiday List", date |-> "2024-09-15", url |-> "https://host/holiday.pdf"] }

GroupIds == <<"g1@g.us", "g2@g.us", "g3@g.us", "g4@g.us">>

VARIABLES
  whatsappGroupIds,  \* config.whatsappGroupIds, fixed at startup
  server,            \* startServer: "booting", "listening" or "exited"
  pc,                \* the await the thread is suspended at
  firstStatus,       \* startSession: the status it fetched first
  startReqs,         \* startSession: POSTs to /api/sessions/start issued
  startRes,          \* startSession: outcome of the start request
  ssAuth,            \* startSession: calls of ensureAuthenticated it made
  authCaller,        \* who awaits the running ensureAuthenticated
  attempts,          \* handleQrCodeScan: attempts
  elapsed,           \* Date.now() - startTime of the running wait loop
  observed,          \* last answer of checkSessionStatus in this call
  query,             \* last status query of this call: the remote's response
                     \* and what checkSessionStatus made of it
  qrFetches,         \* getAuthQR calls of this ensureAuthenticated call
  authResult,        \* "idle", "running", "returned" or "raised"
  authError,         \* which error ensureAuthenticated raised
  bc,                \* broadcastNotice: "idle", "running", "returned", "raised"
  notice,            \* broadcastNotice: its argument
  i,                 \* broadcastNotice: position in whatsappGroupIds
  order,             \* positions whose loop iteration has begun, in order
  dlAttempt,         \* backOff: attempts made by the running download
  posts,             \* backOff: POSTs made by the running send call
  chat,              \* what was called so far for the chat at position i
  outcomes,          \* per finished position: how its calls ended
  parts,             \* splitAndSendLargePdf: parts (0 while it is not running)
  part,              \* splitAndSendLargePdf: i
  splitRes,          \* outcome of a direct call of splitAndSendLargePdf
  paused             \* splitAndSendLargePdf: ms spent in its pauses so far

bootVars == <<server, firstStatus, startReqs, startRes, ssAuth>>
authVars == <<authCaller, attempts, elapsed, observed, query, qrFetches, authResult, authError>>
bcVars == <<bc, notice, i, order, dlAttempt, posts, chat, outcomes, parts, part, splitRes,
           paused>>
vars == <<whatsappGroupIds, pc, bootVars, authVars, bcVars>>

NoNotice == [id |-> 0, title |-> "", date |-> "", url |-> ""]
NoQuery == [response |-> "none", result |-> [ok |-> TRUE, status |-> "none", me |-> "null"]]
EmptyLog == [dl |-> "none", dlErr |-> "none", size |-> 0, files |-> <<>>, links |-> <<>>]

\* ------------------------------------------------------- pure functions

\* A status query that rethrows the 404 like any other failed response.
checkSessionStatusRethrows404(r) ==
  IF r = "404" \/ r = "ERR" THEN [ok |-> FALSE, status |-> "ERR", me |-> "null"]
  ELSE [ok |-> TRUE, status |-> r, me |-> IF r = "WORKING" THEN "user" ELSE "null"]

\* checkSessionStatus: a 404 becomes a FAILED status with no identity, any
\* other failure is rethrown.
checkSessionStatus(r) ==
  IF r = "404" THEN [ok |-> TRUE, status |-> "FAILED", me |-> "null"]
  ELSE IF r = "ERR" THEN [ok |-> FALSE, status |-> "ERR", me |-> "null"]
  ELSE [ok |-> TRUE, status |-> r, me |-> IF r = "WORKING" THEN "user" ELSE "null"]

\* formatNoticeCaption: the date rendered in long en-US form and the title.
\* part = 0 stands for a title without a "(Part n of m)" suffix.
formatNoticeCaption(n, k, total) ==
  [head |-> "New Notice", date |-> <<"en-US long", n.date>>,
   title |-> n.title, part |-> k, of |-> total]

\* `Notice_${id}.pdf`
singleFilename(n) == [prefix |-> "Notice", id |-> n.id, part |-> 0, of |-> 0]

\* `Notice_${id}_Part_${i + 1}_of_${parts}.pdf`
partFilename(n, k, total) == [prefix |-> "Notice", id |-> n.id, part |-> k + 1, of |-> total]

\* `${caption}\n\nClick to view the notice`
fallbackTitle(caption) == [caption |-> caption, suffix |-> "Click to view the notice"]

\* Math.ceil(a / b) for positive b
Ceil(a, b) == (a + b - 1) \div b

\* ------------------------------------------------------------ Init
Init ==
  /\ whatsappGroupIds \in {SubSeq(GroupIds, 1, n) : n \in 1..MaxChats}
  /\ server = "booting"
  /\ pc = "ss_check"
  /\ firstStatus = "none"
  /\ startReqs = 0
  /\ startRes = "none"
  /\ ssAuth = 0
  /\ authCaller = "none"
  /\ attempts = 0
  /\ elapsed = 0
  /\ observed = "none"
  /\ query = NoQuery
  /\ qrFetches = 0
  /\ authResult = "idle"
  /\ authError = "none"
  /\ bc = "idle"
  /\ notice = NoNotice
  /\ i = 0
  /\ order = <<>>
  /\ dlAttempt = 0
  /\ posts = 0
  /\ chat = EmptyLog
  /\ outcomes = <<>>
  /\ parts = 0
  /\ part = 0
  /\ splitRes = "none"
  /\ paused = 0

\* ------------------------------------------- ensureAuthenticated and below

\* A call of ensureAuthenticated by `caller`: the thread suspends on its
\* first checkSessionStatus.
CallEnsureAuthenticated(caller) ==
  /\ pc' = "ea_check"
  /\ authCaller' = caller
  /\ attempts' = 0
  /\ elapsed' = 0
  /\ observed' = "none"
  /\ query' = NoQuery
  /\ qrFetches' = 0
  /\ authResult' = "running"
  /\ authError' = "none"

\* ensureAuthenticated (or a method it awaits) returns normally.
AuthReturn ==
  /\ pc' = "ea_done"
  /\ authResult' = "returned"
  /\ authError' = "none"

\* ensureAuthenticated (or a method it awaits) throws.
AuthRaise(kind) ==
  /\ pc' = "ea_done"
  /\ authResult' = "raised"
  /\ authError' = kind

\* ensureAuthenticated without its check for an unexpected status.
ensureAuthenticatedBranchNoThrow(status) ==
  IF status = "SCAN_QR_CODE" THEN "handleQrCodeScan"
  ELSE IF status = "STARTING" THEN "waitForQrCode"
  ELSE "return"

\* The branch ensureAuthenticated takes on the status it fetched.
ensureAuthenticatedBranch(status) ==
  IF status = "SCAN_QR_CODE" THEN "handleQrCodeScan"
  ELSE IF status = "STARTING" THEN "waitForQrCode"
  ELSE IF status # "WORKING" THEN "throw"
  ELSE "return"

\* Entering handleQrCodeScan: let attempts = 0.
EnterQrLoop ==
  /\ pc' = "qr_fetch"
  /\ attempts' = 0
  /\ UNCHANGED <<elapsed, qrFetches, authResult, authError>>

\* ensureAuthenticated resumes with the answer of its checkSessionStatus.
EnsureAuthenticated ==
  /\ pc = "ea_check"
  /\ \E r \in Responses :
       LET s == checkSessionStatus(r) IN
       /\ observed' = s.status
       /\ query' = [response |-> r, result |-> s]
       /\ IF ~s.ok
            THEN AuthRaise("transport") /\ UNCHANGED <<attempts, elapsed, qrFetches>>
            ELSE CASE ensureAuthenticatedBranch(s.status) = "handleQrCodeScan" -> EnterQrLoop
                   [] ensureAuthenticatedBranch(s.status) = "waitForQrCode" ->
                        /\ pc' = "wq_poll"
                        /\ elapsed' = 0
                        /\ UNCHANGED <<attempts, qrFetches, authResult, authError>>
                   [] ensureAuthenticatedBranch(s.status) = "throw" ->
                        AuthRaise("unexpected") /\ UNCHANGED <<attempts, elapsed, qrFetches>>
                   [] OTHER ->
                        AuthReturn /\ UNCHANGED <<attempts, elapsed, qrFetches>>
  /\ UNCHANGED <<whatsappGroupIds, authCaller, bootVars, bcVars>>

\* The while condition with <= for <.
StartingWindowOpenLate == elapsed <= maxStartingWaitTime

\* waitForQrCode: the while condition Date.now() - startTime < maxStartingWaitTime.
StartingWindowOpen == elapsed < maxStartingWaitTime

\* waitForQrCode: the window is over, the loop ends and the method throws.
WaitForQrCodeTimeout ==
  /\ pc = "wq_poll"
  /\ ~StartingWindowOpen
  /\ AuthRaise("timeout")
  /\ UNCHANGED <<whatsappGroupIds, authCaller, attempts, elapsed, observed, query, qrFetches, bootVars, bcVars>>

\* waitForQrCode: one turn of the loop, a status query and, on STARTING,
\* the 5 s pause.
WaitForQrCodePoll ==
  /\ pc = "wq_poll"
  /\ StartingWindowOpen
  /\ \E r \in Responses, d \in Latencies :
       LET s == checkSessionStatus(r) IN
       /\ observed' = s.status
       /\ query' = [response |-> r, result |-> s]
       /\ IF ~s.ok
            THEN AuthRaise("transport") /\ UNCHANGED <<attempts, elapsed, qrFetches>>
            ELSE CASE s.status = "SCAN_QR_CODE" -> EnterQrLoop
                   [] s.status = "WORKING" ->
                        AuthReturn /\ UNCHANGED <<attempts, elapsed, qrFetches>>
                   [] s.status = "STARTING" ->
                        /\ elapsed' = elapsed + d + pollInterval
                        /\ UNCHANGED <<pc, attempts, qrFetches, authResult, authError>>
                   [] OTHER ->
                        AuthRaise("unexpected") /\ UNCHANGED <<attempts, elapsed, qrFetches>>
  /\ UNCHANGED <<whatsappGroupIds, authCaller, bootVars, bcVars>>

\* The while condition with <= for <.
QrAttemptsLeftOffByOne == attempts <= maxQrCodeAttempts

\* handleQrCodeScan: the while condition attempts < maxQrCodeAttempts.
QrAttemptsLeft == attempts < maxQrCodeAttempts

\* handleQrCodeScan: the loop has ended, the method throws.
HandleQrCodeScanExhausted ==
  /\ pc = "qr_fetch"
  /\ ~QrAttemptsLeft
  /\ AuthRaise("qr")
  /\ UNCHANGED <<whatsappGroupIds, authCaller, attempts, elapsed, observed, query, qrFetches, bootVars, bcVars>>

\* handleQrCodeScan: one getAuthQR; a failed fetch is caught and counted.
HandleQrCodeScanFetch ==
  /\ pc = "qr_fetch"
  /\ QrAttemptsLeft
  /\ qrFetches' = qrFetches + 1
  /\ \E ok \in BOOLEAN :
       IF ok
         THEN /\ pc' = "wa_poll"
              /\ elapsed' = 0
              /\ UNCHANGED attempts
         ELSE /\ attempts' = attempts + 1
              /\ UNCHANGED <<pc, elapsed>>
  /\ UNCHANGED <<whatsappGroupIds, authCaller, observed, query, authResult, authError, bootVars, bcVars>>

\* A QR window that never closes.
QrWindowOpenForever == TRUE

\* waitForAuthentication: the while condition of the QR window.
QrWindowOpen == elapsed < qrCodeExpirationTime

\* waitForAuthentication returned false: handleQrCodeScan counts the attempt.
WaitForAuthenticationExpired ==
  /\ pc = "wa_poll"
  /\ ~QrWindowOpen
  /\ attempts' = attempts + 1
  /\ pc' = "qr_fetch"
  /\ UNCHANGED <<whatsappGroupIds, authCaller, elapsed, observed, query, qrFetches, authResult, authError, bootVars, bcVars>>

\* A waitForAuthentication that also stops on a session that has failed.
AuthenticatedStatusOrFailed(status) == status = "WORKING" \/ status = "FAILED"

\* The statuses on which waitForAuthentication returns true.
AuthenticatedStatus(status) == status = "WORKING"

\* waitForAuthentication: one status query and the 5 s pause; a query that
\* throws is caught by handleQrCodeScan and counted.
WaitForAuthenticationPoll ==
  /\ pc = "wa_poll"
  /\ QrWindowOpen
  /\ \E r \in Responses, d \in Latencies :
       LET s == checkSessionStatus(r) IN
       /\ observed' = s.status
       /\ query' = [response |-> r, result |-> s]
       /\ IF ~s.ok
            THEN /\ attempts' = attempts + 1
                 /\ pc' = "qr_fetch"
                 /\ UNCHANGED <<elapsed, authResult, authError>>
            ELSE IF AuthenticatedStatus(s.status)
              THEN AuthReturn /\ UNCHANGED <<attempts, elapsed>>
              ELSE /\ elapsed' = elapsed + d + pollInterval
                   /\ UNCHANGED <<pc, attempts, authResult, authError>>
  /\ UNCHANGED <<whatsappGroupIds, authCaller, qrFetches, bootVars, bcVars>>

\* The locals of a finished ensureAuthenticated call go out of scope.
AuthIdle ==
  /\ authCaller' = "none"
  /\ attempts' = 0
  /\ elapsed' = 0
  /\ observed' = "none"
  /\ query' = NoQuery
  /\ qrFetches' = 0
  /\ authResult' = "idle"
  /\ authError' = "none"

\* ------------------------------------------------ startSession, startServer

\* startServer: startSession returned, app.listen.
StartSessionReturns ==
  /\ server' = "listening"
  /\ pc' = "listening"

\* A startServer that logs the error of startSession and listens all the same.
StartSessionRaisesSwallowed ==
  /\ server' = "listening"
  /\ pc' = "listening"

\* startServer: startSession threw, process.exit(1).
StartSessionRaises ==
  /\ server' = "exited"
  /\ pc' = "exited"

\* startSession that waits only on SCAN_QR_CODE and restarts a STARTING session.
startSessionBranchRestarts(status) ==
  IF status = "WORKING" THEN "return"
  ELSE IF status = "SCAN_QR_CODE" THEN "ensureAuthenticated"
  ELSE "start"

\* The branch startSession takes on the status it fetched first.
startSessionBranch(status) ==
  IF status = "WORKING" THEN "return"
  ELSE IF status = "STARTING" \/ status = "SCAN_QR_CODE" THEN "ensureAuthenticated"
  ELSE "start"

\* startSession resumes with the answer of its checkSessionStatus.
StartSessionCheck ==
  /\ pc = "ss_check"
  /\ \E r \in Responses :
       LET s == checkSessionStatus(r) IN
       /\ firstStatus' = s.status
       /\ IF ~s.ok
            THEN StartSessionRaises /\ UNCHANGED <<ssAuth, authVars>>
            ELSE CASE startSessionBranch(s.status) = "return" ->
                        StartSessionReturns /\ UNCHANGED <<ssAuth, authVars>>
                   [] startSessionBranch(s.status) = "ensureAuthenticated" ->
                        /\ ssAuth' = ssAuth + 1
                        /\ CallEnsureAuthenticated("startSession")
                        /\ UNCHANGED server
                   [] OTHER ->
                        /\ pc' = "ss_start"
                        /\ UNCHANGED <<server, ssAuth, authVars>>
  /\ UNCHANGED <<whatsappGroupIds, startReqs, startRes, bcVars>>

\* startSession resumes with the answer of POST /api/sessions/start.
StartSessionStart ==
  /\ pc = "ss_start"
  /\ startReqs' = startReqs + 1
  /\ \E ok \in BOOLEAN :
       IF ok
         THEN /\ startRes' = "ok"
              /\ ssAuth' = ssAuth + 1
              /\ CallEnsureAuthenticated("startSession")
              /\ UNCHANGED server
         ELSE /\ startRes' = "failed"
              /\ StartSessionRaises
              /\ UNCHANGED <<ssAuth, authVars>>
  /\ UNCHANGED <<whatsappGroupIds, firstStatus, bcVars>>

\* startSession resumes after its ensureAuthenticated.
StartSessionResume ==
  /\ pc = "ea_done"
  /\ authCaller = "startSession"
  /\ IF authResult = "returned" THEN StartSessionReturns ELSE StartSessionRaises
  /\ UNCHANGED <<whatsappGroupIds, firstStatus, startReqs, startRes, ssAuth, authVars, bcVars>>

\* ------------------------------------------------------- broadcastNotice

NumChats == Len(whatsappGroupIds)

\* The record of the sendFileMessage call that is running.
CurFile(lg) == Len(lg.files)

\* The record of the sendLinkPreview call that is running.
CurLink(lg) == Len(lg.links)

\* How the calls made for one chat ended.
Summary(lg) ==
  [dl |-> lg.dl,
   file |-> IF lg.files = <<>> THEN "none" ELSE lg.files[Len(lg.files)].res,
   link |-> IF lg.links = <<>> THEN "none" ELSE lg.links[Len(lg.links)].res]

\* The body of the for loop has ended for the chat at position i.
ChatDone(lg) ==
  /\ chat' = lg
  /\ pc' = "chat_done"
  /\ posts' = 0
  /\ parts' = 0
  /\ part' = 0
  /\ dlAttempt' = 0
  /\ UNCHANGED <<bc, notice, i, order, outcomes, splitRes, paused>>

\* An inner catch that rethrows: broadcastNotice raises to its caller.
FallbackFailedRethrows(lg) ==
  /\ chat' = lg
  /\ outcomes' = Append(outcomes, Summary(lg))
  /\ pc' = "listening"
  /\ bc' = "raised"
  /\ posts' = 0
  /\ AuthIdle
  /\ UNCHANGED <<notice, i, order, dlAttempt, parts, part, splitRes, paused>>

\* An inner catch that leaves the loop: the remaining chats are skipped.
FallbackFailedBreaks(lg) ==
  /\ chat' = lg
  /\ outcomes' = Append(outcomes, Summary(lg))
  /\ pc' = "listening"
  /\ bc' = "returned"
  /\ posts' = 0
  /\ AuthIdle
  /\ UNCHANGED <<notice, i, order, dlAttempt, parts, part, splitRes, paused>>

\* The inner catch of broadcastNotice: the fallback failed, which is logged.
FallbackFailed(lg) == ChatDone(lg) /\ AuthIdle

\* sendLinkPreview(groupId, notice.url, title) is called: the thread suspends
\* in its ensureAuthenticated.
CallSendLinkPreview(lg, url, title) ==
  /\ chat' = [lg EXCEPT !.links = Append(@,
                [chatId |-> whatsappGroupIds[i], url |-> url, title |-> title,
                 auth |-> "pending", posted |-> FALSE, res |-> "pending"])]
  /\ posts' = 0
  /\ CallEnsureAuthenticated("sendLinkPreview")

\* The outer catch of broadcastNotice: fall back to a link preview.
StartFallback(lg) ==
  /\ CallSendLinkPreview(lg, notice.url, fallbackTitle(formatNoticeCaption(notice, 0, 0)))
  /\ parts' = 0
  /\ part' = 0
  /\ dlAttempt' = 0
  /\ UNCHANGED <<bc, notice, i, order, outcomes, splitRes, paused>>

\* sendFileMessage(chatId, buffer, filename, caption) is called with the
\* bytes [from, to) of the download: the thread suspends in its
\* ensureAuthenticated.
CallSendFileMessage(lg, filename, caption, from, to) ==
  /\ chat' = [lg EXCEPT !.files = Append(@,
                [chatId |-> whatsappGroupIds[i], filename |-> filename, caption |-> caption,
                 from |-> from, to |-> to,
                 auth |-> "pending", posted |-> FALSE, res |-> "pending"])]
  /\ posts' = 0
  /\ CallEnsureAuthenticated("sendFileMessage")

\* splitAndSendLargePdf: the bounds of part k of a buffer of `size` bytes.
partStart(k) == k * maxSize

\* A part end without Math.min.
partEndNoMin(k, size) == (k + 1) * maxSize

partEnd(k, size) == IF (k + 1) * maxSize < size THEN (k + 1) * maxSize ELSE size

\* splitAndSendLargePdf: the body of the for loop up to its sendFileMessage.
SendPart(lg, k, n) ==
  CallSendFileMessage(lg, partFilename(notice, k, n), formatNoticeCaption(notice, k + 1, n),
                      partStart(k), partEnd(k, lg.size))

\* splitAndSendLargePdf(notice, pdfBuffer, chatId) is called.
CallSplitAndSendLargePdf(lg) ==
  /\ parts' = Ceil(lg.size, maxSize)
  /\ part' = 0
  /\ SendPart(lg, 0, Ceil(lg.size, maxSize))

\* The size test with >= for >.
NeedsSplitAtLimit(size) == size >= maxSize

\* The size test of broadcastNotice: a buffer over 50 MB is split.
NeedsSplit(size) == size > maxSize

\* broadcastNotice after its download: split a buffer over 50 MB, send any
\* other as one file.
Deliver(lg) ==
  /\ IF NeedsSplit(lg.size)
       THEN CallSplitAndSendLargePdf(lg)
       ELSE /\ CallSendFileMessage(lg, singleFilename(notice), formatNoticeCaption(notice, 0, 0),
                                   0, lg.size)
            /\ UNCHANGED <<parts, part>>
  /\ dlAttempt' = 0
  /\ UNCHANGED <<bc, notice, i, order, outcomes, splitRes, paused>>

\* What one attempt of downloadPdfWithRetry makes of the transport's answer:
\* the buffer, or an error.
downloadAttempt(r) ==
  IF ~r.ok THEN [ok |-> FALSE, err |-> "transport"]
  ELSE IF r.size > maxSize THEN [ok |-> FALSE, err |-> "toolarge"]
  ELSE [ok |-> TRUE, err |-> "none"]

\* backOff that allows one attempt more.
RetryAfterOffByOne(made) == made <= numOfAttempts

\* backOff: whether a failed attempt is followed by another one.
RetryAfter(made) == made < numOfAttempts

\* An outer catch that only logs a failed download.
DownloadFailedSkips(lg) == ChatDone(lg) /\ UNCHANGED authVars

\* An outer catch that calls sendLinkPreview without awaiting it: the loop
\* moves on while the fallback is still under way.
DownloadFailedDetached(lg) ==
  /\ ChatDone([lg EXCEPT !.links = Append(@,
                [chatId |-> whatsappGroupIds[i], url |-> notice.url,
                 title |-> fallbackTitle(formatNoticeCaption(notice, 0, 0)),
                 auth |-> "pending", posted |-> FALSE, res |-> "pending"])])
  /\ UNCHANGED authVars

\* The outer catch of broadcastNotice after a failed download.
DownloadFailed(lg) == StartFallback(lg)

\* An outer catch that only logs a failed sendFileMessage.
SendFileFailedSkips(lg) == ChatDone(lg) /\ AuthIdle

\* The outer catch of broadcastNotice after a failed sendFileMessage; a
\* direct call of splitAndSendLargePdf just throws.
SendFileFailed(lg) ==
  IF bc = "running"
    THEN StartFallback(lg)
    ELSE /\ chat' = lg
         /\ pc' = "sp_done"
         /\ splitRes' = "raised"
         /\ posts' = 0
         /\ AuthIdle
         /\ UNCHANGED <<bc, notice, i, order, outcomes, dlAttempt, parts, part, paused>>

\* A split loop without its pause: the next part is sent as soon as the
\* previous sendFileMessage has returned.
SendFileSucceededNoPause(lg) ==
  IF parts = 0
    THEN ChatDone(lg) /\ AuthIdle
    ELSE IF part + 1 < parts
      THEN /\ part' = part + 1
           /\ SendPart(lg, part + 1, parts)
           /\ UNCHANGED <<bc, notice, i, order, outcomes, dlAttempt, parts, splitRes, paused>>
      ELSE /\ chat' = lg
           /\ pc' = "sp_done"
           /\ splitRes' = "returned"
           /\ part' = part + 1
           /\ posts' = 0
           /\ AuthIdle
           /\ UNCHANGED <<bc, notice, i, order, outcomes, dlAttempt, parts, paused>>

\* sendFileMessage returned: the chat is done, or the split pauses 2 s.
SendFileSucceeded(lg) ==
  IF parts = 0
    THEN ChatDone(lg) /\ AuthIdle
    ELSE /\ chat' = lg
         /\ pc' = "sp_pause"
         /\ posts' = 0
         /\ AuthIdle
         /\ UNCHANGED <<bc, notice, i, order, outcomes, dlAttempt, parts, part, splitRes, paused>>

\* The webhook route calls broadcastNotice(notice): the caption is rendered
\* and the loop starts the download for the first group id.
Webhook ==
  /\ pc = "listening"
  /\ \E n \in Notices : notice' = n
  /\ bc' = "running"
  /\ i' = 1
  /\ order' = <<1>>
  /\ dlAttempt' = 0
  /\ posts' = 0
  /\ parts' = 0
  /\ part' = 0
  /\ chat' = EmptyLog
  /\ outcomes' = <<>>
  /\ pc' = "dl"
  /\ UNCHANGED <<whatsappGroupIds, splitRes, paused, bootVars, authVars>>

\* The for loop moves to the next group id, or broadcastNotice returns.
LoopNext ==
  /\ pc = "chat_done"
  /\ outcomes' = Append(outcomes, Summary(chat))
  /\ chat' = EmptyLog
  /\ i' = i + 1
  /\ IF i < NumChats
       THEN /\ pc' = "dl"
            /\ order' = Append(order, i + 1)
            /\ UNCHANGED bc
       ELSE /\ pc' = "listening"
            /\ bc' = "returned"
            /\ UNCHANGED order
  /\ UNCHANGED <<whatsappGroupIds, notice, dlAttempt, posts, parts, part, splitRes, paused, bootVars, authVars>>

\* One attempt of downloadPdfWithRetry under backOff.
Download ==
  /\ pc = "dl"
  /\ \E r \in DownloadResults :
       LET a == downloadAttempt(r)
           lg == [chat EXCEPT !.dl = IF a.ok THEN "ok"
                                     ELSE IF RetryAfter(dlAttempt + 1) THEN "retrying"
                                     ELSE "failed",
                              !.dlErr = a.err,
                              !.size = r.size]
       IN
       IF a.ok
         THEN Deliver(lg)
         ELSE IF RetryAfter(dlAttempt + 1)
           THEN /\ chat' = lg
                /\ dlAttempt' = dlAttempt + 1
                /\ UNCHANGED <<pc, bc, notice, i, order, outcomes, posts, parts, part, splitRes, paused, authVars>>
           ELSE DownloadFailed(lg)
  /\ UNCHANGED <<whatsappGroupIds, bootVars>>

\* A sendFileMessage that posts whatever ensureAuthenticated did.
SendFileAuthIgnored == TRUE

\* sendFileMessage: the await of ensureAuthenticated did not throw.
SendFileAuthPassed == authResult = "returned"

\* sendFileMessage resumes after its ensureAuthenticated; an error is logged
\* and rethrown.
SendFileResume ==
  /\ pc = "ea_done"
  /\ authCaller = "sendFileMessage"
  /\ LET lg == [chat EXCEPT !.files[CurFile(chat)].auth =
                                IF authResult = "returned" THEN "ok" ELSE "raised"]
     IN
     IF SendFileAuthPassed
       THEN /\ chat' = lg
            /\ pc' = "sf_post"
            /\ AuthIdle
            /\ UNCHANGED <<bc, notice, i, order, outcomes, dlAttempt, posts, parts, part, splitRes, paused>>
       ELSE SendFileFailed([lg EXCEPT !.files[CurFile(chat)].res = "failed"])
  /\ UNCHANGED <<whatsappGroupIds, bootVars>>

\* One POST /api/sendFile under backOff.
SendFilePost ==
  /\ pc = "sf_post"
  /\ \E ok \in BOOLEAN :
       LET lg == [chat EXCEPT !.files[CurFile(chat)].posted = TRUE] IN
       IF ok
         THEN SendFileSucceeded([lg EXCEPT !.files[CurFile(chat)].res = "ok"])
         ELSE IF RetryAfter(posts + 1)
           THEN /\ chat' = lg
                /\ posts' = posts + 1
                /\ UNCHANGED <<pc, bc, notice, i, order, outcomes, dlAttempt, parts, part, splitRes, paused, authVars>>
           ELSE SendFileFailed([lg EXCEPT !.files[CurFile(chat)].res = "failed"])
  /\ UNCHANGED <<whatsappGroupIds, bootVars>>

\* sendLinkPreview: the await of ensureAuthenticated did not throw.
SendLinkAuthPassed == authResult = "returned"

\* sendLinkPreview resumes after its ensureAuthenticated; an error is logged
\* and rethrown.
SendLinkResume ==
  /\ pc = "ea_done"
  /\ authCaller = "sendLinkPreview"
  /\ LET lg == [chat EXCEPT !.links[CurLink(chat)].auth =
                                IF authResult = "returned" THEN "ok" ELSE "raised"]
     IN
     IF SendLinkAuthPassed
       THEN /\ chat' = lg
            /\ pc' = "lp_post"
            /\ AuthIdle
            /\ UNCHANGED <<bc, notice, i, order, outcomes, dlAttempt, posts, parts, part, splitRes, paused>>
       ELSE FallbackFailed([lg EXCEPT !.links[CurLink(chat)].res = "failed"])
  /\ UNCHANGED <<whatsappGroupIds, bootVars>>

\* sendLinkPreview returned to broadcastNotice.
SendLinkSucceeded(lg) == ChatDone(lg) /\ AuthIdle

\* One POST /api/sendLinkPreview under backOff.
SendLinkPost ==
  /\ pc = "lp_post"
  /\ \E ok \in BOOLEAN :
       LET lg == [chat EXCEPT !.links[CurLink(chat)].posted = TRUE] IN
       IF ok
         THEN SendLinkSucceeded([lg EXCEPT !.links[CurLink(chat)].res = "ok"])
         ELSE IF RetryAfter(posts + 1)
           THEN /\ chat' = lg
                /\ posts' = posts + 1
                /\ UNCHANGED <<pc, bc, notice, i, order, outcomes, dlAttempt, parts, part, splitRes, paused, authVars>>
           ELSE FallbackFailed([lg EXCEPT !.links[CurLink(chat)].res = "failed"])
  /\ UNCHANGED <<whatsappGroupIds, bootVars>>

\* ------------------------------------------------------- specification
Next ==
  \/ StartSessionCheck
  \/ StartSessionStart
  \/ StartSessionResume
  \/ EnsureAuthenticated
  \/ WaitForQrCodeTimeout
  \/ WaitForQrCodePoll
  \/ HandleQrCodeScanExhausted
  \/ HandleQrCodeScanFetch
  \/ WaitForAuthenticationExpired
  \/ WaitForAuthenticationPoll
  \/ Webhook
  \/ LoopNext
  \/ Download
  \/ SendFileResume
  \/ SendFilePost
  \/ SendLinkResume
  \/ SendLinkPost

Spec == Init /\ [][Next]_vars

\* Termination of a call does not depend on how many chats are configured, so
\* the fair behaviours are explored for the shortest lists only.
FairInit == Init /\ Len(whatsappGroupIds) <= FairChats

\* The same program under the assumption that every remote call returns and
\* time advances: the thread takes its next step whenever it has one.
FairSpec == FairInit /\ [][Next]_vars /\ WF_vars(Next)

\* --------------------------------- splitAndSendLargePdf, called on its own
\* The buffer sizes splitAndSendLargePdf is called with: all above 50 MB,
\* with and without a remainder.
SplitSizes == {maxSize + 1, 2 * maxSize, 2 * maxSize + 1, 120 * 1024 * 1024}

\* splitAndSendLargePdf(notice, pdfBuffer, chatId) is about to be called by
\* a running server, for any notice, any configured chat and any buffer of
\* SplitSizes.
SplitInit ==
  /\ whatsappGroupIds \in {SubSeq(GroupIds, 1, n) : n \in 1..MaxChats}
  /\ server = "listening"
  /\ pc = "sp_call"
  /\ firstStatus = "WORKING"
  /\ startReqs = 0
  /\ startRes = "none"
  /\ ssAuth = 0
  /\ authCaller = "none"
  /\ attempts = 0
  /\ elapsed = 0
  /\ observed = "none"
  /\ query = NoQuery
  /\ qrFetches = 0
  /\ authResult = "idle"
  /\ authError = "none"
  /\ bc = "idle"
  /\ notice \in Notices
  /\ i \in 1..NumChats
  /\ order = <<>>
  /\ dlAttempt = 0
  /\ posts = 0
  /\ \E size \in SplitSizes : chat = [EmptyLog EXCEPT !.dl = "ok", !.size = size]
  /\ outcomes = <<>>
  /\ parts = 0
  /\ part = 0
  /\ splitRes = "none"
  /\ paused = 0

\* The call: parts is computed and the first part is sent.
SplitCall ==
  /\ pc = "sp_call"
  /\ CallSplitAndSendLargePdf(chat)
  /\ UNCHANGED <<whatsappGroupIds, bootVars, bc, notice, i, order, outcomes, dlAttempt,
                 splitRes, paused>>

\* The 2 s pause after a part has ended: i++, then the next part is sent or
\* the loop ends and the method returns.
SplitPause ==
  /\ pc = "sp_pause"
  /\ paused' = paused + partPause
  /\ part' = part + 1
  /\ IF part + 1 < parts
       THEN SendPart(chat, part + 1, parts) /\ UNCHANGED splitRes
       ELSE /\ pc' = "sp_done"
            /\ splitRes' = "returned"
            /\ UNCHANGED <<chat, posts, authVars>>
  /\ UNCHANGED <<whatsappGroupIds, bootVars, bc, notice, i, order, outcomes, dlAttempt, parts>>

NextSplit ==
  \/ SplitCall
  \/ EnsureAuthenticated
  \/ WaitForQrCodeTimeout
  \/ WaitForQrCodePoll
  \/ HandleQrCodeScanExhausted
  \/ HandleQrCodeScanFetch
  \/ WaitForAuthenticationExpired
  \/ WaitForAuthenticationPoll
  \/ SendFileResume
  \/ SendFilePost
  \/ SplitPause

SpecSplit == SplitInit /\ [][NextSplit]_vars

\* =============================================================== claims

\* The records of every send call made so far for the chat at position i.
FileCalls == {chat.files[k] : k \in 1..Len(chat.files)}

LinkCalls == {chat.links[k] : k \in 1..Len(chat.links)}

\* The list 1..n
UpTo(n) == [k \in 1..n |-> k]

\* C1: one broadcastNotice call starts a delivery attempt for every
\* configured chat, in list order, however the download, the file send or
\* the fallback ended for an earlier chat: the loop iterations begin in list
\* order with none skipped, and when the call has ended every chat has had
\* its download and at least one of sendFileMessage and sendLinkPreview.
C1_EveryChatAttempted ==
  /\ bc # "idle" => order = UpTo(Len(order))
  /\ bc = "running" => /\ Len(order) = i
                       /\ Len(outcomes) = i - 1
  /\ bc \in {"returned", "raised"} =>
       /\ order = UpTo(NumChats)
       /\ Len(outcomes) = NumChats
       /\ \A k \in 1..NumChats :
            /\ outcomes[k].dl \in {"ok", "failed"}
            /\ outcomes[k].file # "none" \/ outcomes[k].link # "none"

\* C1 witness: a broadcast to two chats has ended; for the first chat the
\* download and the fallback both failed, and the second chat got its file.
C1_Witness ==
  /\ bc = "returned"
  /\ NumChats >= 2
  /\ outcomes[1].dl = "failed"
  /\ outcomes[1].link = "failed"
  /\ outcomes[2].file = "ok"

\* C2: broadcastNotice never raises to its caller, and never stops before
\* its end: while it runs, a next step exists whatever failed so far.
C2_NeverRaises ==
  /\ bc # "raised"
  /\ bc = "running" => ENABLED Next

\* C2 witness: a broadcast returned although the fallback failed for every
\* chat, after a failed download for one and a failed file send for another.
C2_Witness ==
  /\ bc = "returned"
  /\ \A k \in 1..NumChats : outcomes[k].link = "failed"
  /\ \E k \in 1..NumChats : outcomes[k].dl = "failed"
  /\ \E k \in 1..NumChats : outcomes[k].file = "failed"

\* C3: when the downloaded attachment is larger than 50 MiB and every send
\* succeeds, the chat gets exactly ceil(S / 50 MiB) sendFile calls named
\* Notice_<id>_Part_<n>_of_<total>.pdf and no sendLinkPreview call.
C3_OversizeIsSplit ==
  ( /\ pc = "chat_done"
    /\ chat.size > maxSize
    /\ \A f \in FileCalls : f.res = "ok"
    /\ \A l \in LinkCalls : l.res = "ok" )
  => /\ Len(chat.files) = Ceil(chat.size, maxSize)
     /\ \A k \in 1..Len(chat.files) :
          chat.files[k].filename =
            [prefix |-> "Notice", id |-> notice.id, part |-> k, of |-> Ceil(chat.size, maxSize)]
     /\ chat.links = <<>>

\* C4: when the download for a chat failed after its retries, exactly one
\* sendLinkPreview call is made for that chat, with the notice's url, and
\* no sendFile call.
C4_DownloadFailureFallsBack ==
  chat.dl = "failed" =>
    /\ Len(chat.links) = 1
    /\ chat.links[1].chatId = whatsappGroupIds[i]
    /\ chat.links[1].url = notice.url
    /\ chat.files = <<>>

\* C4 witness: the chat is done after five transport failures and a link
\* preview that was posted.
C4_Witness ==
  /\ pc = "chat_done"
  /\ chat.dl = "failed"
  /\ chat.dlErr = "transport"
  /\ chat.links[1].res = "ok"

\* C5: when the download gave at most 50 MiB and the file send succeeded,
\* exactly one sendFile call was made for the chat, with the whole buffer,
\* filename Notice_<id>.pdf and the rendered caption, and no fallback call.
C5_SingleFile ==
  ( /\ chat.dl = "ok"
    /\ chat.size <= maxSize
    /\ \E f \in FileCalls : f.res = "ok" )
  => /\ Len(chat.files) = 1
     /\ chat.files[1].chatId = whatsappGroupIds[i]
     /\ chat.files[1].filename = [prefix |-> "Notice", id |-> notice.id, part |-> 0, of |-> 0]
     /\ chat.files[1].caption.title = notice.title
     /\ chat.files[1].caption.part = 0
     /\ chat.files[1].from = 0
     /\ chat.files[1].to = chat.size
     /\ chat.links = <<>>

\* C5 witness: a buffer of exactly 50 MiB was sent as one file.
C5_Witness ==
  /\ pc = "chat_done"
  /\ chat.size = maxSize
  /\ Len(chat.files) = 1
  /\ chat.files[1].res = "ok"

\* C6: once a file send for a chat failed (ensureAuthenticated threw in it,
\* or its POST failed on every attempt), exactly one sendLinkPreview call is
\* made for that chat, with the notice's url and the caption followed by the
\* click-to-view line; the failed send is the last file send for the chat,
\* and no chat ever gets a second fallback.
C6_SendFailureFallsBack ==
  /\ Len(chat.links) <= 1
  /\ \A k \in 1..Len(chat.files) :
       chat.files[k].res = "failed" =>
         /\ k = Len(chat.files)
         /\ Len(chat.links) = 1
         /\ chat.links[1].chatId = chat.files[k].chatId
         /\ chat.links[1].url = notice.url
         /\ chat.links[1].title.caption.title = notice.title
         /\ chat.links[1].title.caption.part = 0
         /\ chat.links[1].title.suffix = "Click to view the notice"

\* C6 witness: the file's POST failed on all attempts and the link preview
\* was then posted.
C6_Witness ==
  /\ pc = "chat_done"
  /\ Len(chat.files) = 1
  /\ chat.files[1].posted
  /\ chat.files[1].res = "failed"
  /\ chat.links[1].res = "ok"

\* C7: every POST of a send call comes after an ensureAuthenticated of the
\* same call that returned normally, and a call whose ensureAuthenticated
\* threw makes no POST.
C7_AuthBeforePost ==
  /\ \A c \in FileCalls \cup LinkCalls :
       /\ c.posted => c.auth = "ok"
       /\ c.auth = "raised" => ~c.posted /\ c.res = "failed"
  /\ pc = "sf_post" => chat.files[Len(chat.files)].auth = "ok"
  /\ pc = "lp_post" => chat.links[Len(chat.links)].auth = "ok"

\* C7 witness: in one chat the file send stopped at a raising
\* ensureAuthenticated without a POST, and the link preview was posted after
\* an ensureAuthenticated that returned.
C7_Witness ==
  /\ Len(chat.files) = 1
  /\ chat.files[1].auth = "raised"
  /\ Len(chat.links) = 1
  /\ chat.links[1].auth = "ok"
  /\ chat.links[1].posted

\* C8: ensureAuthenticated returns normally only if the last status it
\* observed was WORKING; in every other case it has raised.
C8_NoSilentReturn ==
  pc = "ea_done" =>
    /\ authResult \in {"returned", "raised"}
    /\ authResult = "returned" <=> observed = "WORKING"

\* C8 witness: ensureAuthenticated returned after a first QR attempt failed.
C8_Witness ==
  /\ pc = "ea_done"
  /\ authResult = "returned"
  /\ attempts >= 1

\* C9: startSession branches on the status it fetched first: on WORKING no
\* start request and no ensureAuthenticated; on STARTING or SCAN_QR_CODE
\* ensureAuthenticated without a start request; on any other status one
\* start request, followed once it has succeeded by ensureAuthenticated.
\* No start request is issued in any other case.
C9_StartSessionBranches ==
  /\ startReqs <= 1
  /\ ssAuth <= 1
  /\ startReqs = 1 => firstStatus = "FAILED"
  /\ firstStatus \in {"none", "ERR"} => startReqs = 0 /\ ssAuth = 0
  /\ firstStatus = "WORKING" => startReqs = 0 /\ ssAuth = 0 /\ server = "listening"
  /\ firstStatus \in {"STARTING", "SCAN_QR_CODE"} => startReqs = 0 /\ ssAuth = 1
  /\ firstStatus = "FAILED" =>
       IF pc = "ss_start"
         THEN startReqs = 0 /\ ssAuth = 0
         ELSE /\ startReqs = 1
              /\ startRes = "ok" => ssAuth = 1
              /\ startRes = "failed" => ssAuth = 0 /\ server = "exited"

\* C9 witness: the first status was FAILED, one start request was issued,
\* ensureAuthenticated ran and the server listens.
C9_Witness ==
  /\ firstStatus = "FAILED"
  /\ startReqs = 1
  /\ ssAuth = 1
  /\ server = "listening"

\* C10: the QR loop makes at most 5 attempts and at most 5 QR fetches; an
\* attempt is counted as failed exactly when its fetch raised, its window
\* elapsed without WORKING, or its poll raised; the loop returns at the
\* first attempt that observes WORKING, and raises the authentication
\* failure exactly when 5 attempts have failed.
C10_QrLoopBounded ==
  /\ [](/\ attempts <= 5
        /\ qrFetches <= 5
        /\ pc = "qr_fetch" => qrFetches = attempts
        /\ pc = "wa_poll" => qrFetches = attempts + 1 /\ attempts < 5
        /\ pc = "ea_done" =>
             /\ authError = "qr" <=> attempts = 5
             /\ authResult = "returned" /\ qrFetches > 0 =>
                  observed = "WORKING" /\ qrFetches = attempts + 1)
  /\ [][ /\ attempts' = attempts + 1 =>
              \/ pc = "qr_fetch" /\ qrFetches' = qrFetches + 1
              \/ pc = "wa_poll" /\ elapsed >= 60000
              \/ pc = "wa_poll" /\ observed' = "ERR"
         /\ pc = "wa_poll" /\ (elapsed >= 60000 \/ observed' = "ERR") =>
              attempts' = attempts + 1
         /\ pc = "wa_poll" /\ elapsed < 60000 /\ observed' = "WORKING" =>
              pc' = "ea_done" /\ authResult' = "returned" ]_vars

\* C10 witness: the loop raised after five fetched challenges, the last of
\* which expired.
C10_Witness ==
  /\ pc = "ea_done"
  /\ authError = "qr"
  /\ qrFetches = 5
  /\ elapsed >= 60000

\* C11: when ensureAuthenticated observes STARTING it enters waitForQrCode,
\* which queries the status and pauses 5 s after each STARTING answer: on
\* SCAN_QR_CODE it enters the QR loop, on WORKING it returns, on any other
\* answer it raises at once, and once 60 s have elapsed with the status
\* still STARTING it raises the timeout.
C11_StartingWait ==
  /\ [](/\ pc = "wq_poll" => observed = "STARTING"
        /\ pc = "ea_done" /\ authError = "timeout" =>
             observed = "STARTING" /\ elapsed >= 60000)
  /\ [][ /\ pc = "ea_check" /\ observed' = "STARTING" => pc' = "wq_poll" /\ elapsed' = 0
         /\ pc = "wq_poll" =>
              IF elapsed >= 60000
                THEN pc' = "ea_done" /\ authResult' = "raised" /\ authError' = "timeout"
                ELSE CASE observed' = "SCAN_QR_CODE" -> pc' = "qr_fetch" /\ attempts' = 0
                       [] observed' = "WORKING" -> pc' = "ea_done" /\ authResult' = "returned"
                       [] observed' = "STARTING" ->
                            pc' = "wq_poll" /\ elapsed' >= elapsed + 5000
                       [] OTHER ->
                            /\ pc' = "ea_done"
                            /\ authResult' = "raised"
                            /\ authError' \in {"unexpected", "transport"} ]_vars

\* C11 witness: the wait for the QR code has timed out.
C11_Witness ==
  /\ pc = "ea_done"
  /\ authError = "timeout"
  /\ observed = "STARTING"

\* C12: a download attempt whose payload exceeds 50 MiB is not followed by
\* another attempt: the fetch raises at once, and only a transport failure
\* is retried.
C12_OversizeNotRetried ==
  chat.dl = "retrying" => chat.dlErr = "transport"

\* C13: one downloadPdfWithRetry call makes at most 5 download attempts and
\* one sendFileMessage or sendLinkPreview call at most 5 POSTs; the call
\* stops at the first attempt that succeeds, goes on after a failed attempt
\* while fewer than 5 were made, and raises when the fifth has failed.
C13_AttemptBounded ==
  /\ [](/\ pc = "dl" => dlAttempt < 5
        /\ pc \in {"sf_post", "lp_post"} => posts < 5)
  /\ [][ /\ pc = "dl" =>
              CASE chat'.dl = "ok" -> pc' = "ea_check" /\ Len(chat'.files) = 1
                [] dlAttempt + 1 < 5 ->
                     pc' = "dl" /\ dlAttempt' = dlAttempt + 1 /\ chat'.dl = "retrying"
                [] OTHER ->
                     pc' = "ea_check" /\ chat'.dl = "failed" /\ Len(chat'.links) = 1
         /\ pc = "sf_post" =>
              CASE chat'.files[Len(chat.files)].res = "ok" -> pc' \in {"chat_done", "sp_pause"}
                [] posts + 1 < 5 -> pc' = "sf_post" /\ posts' = posts + 1
                [] OTHER -> chat'.files[Len(chat.files)].res = "failed" /\ pc' # "sf_post"
         /\ pc = "lp_post" =>
              CASE chat'.links[Len(chat.links)].res = "ok" -> pc' = "chat_done"
                [] posts + 1 < 5 -> pc' = "lp_post" /\ posts' = posts + 1
                [] OTHER -> chat'.links[Len(chat.links)].res = "failed" /\ pc' = "chat_done" ]_vars

\* C13 witness: the download was given up after its attempts and the link
\* preview's POST has failed four times, the fifth being under way.
C13_Witness ==
  /\ pc = "lp_post"
  /\ posts = 4
  /\ chat.dl = "failed"

\* C14: assuming every remote call returns and time advances, every
\* ensureAuthenticated call, whoever made it, eventually returns or raises,
\* and it does so with at most 5 QR attempts made and no wait window
\* overrun by more than one poll.
C14_AuthenticationEnds ==
  /\ (authResult = "running") ~> (authResult \in {"returned", "raised"})
  /\ [](/\ attempts <= maxQrCodeAttempts
        /\ elapsed < qrCodeExpirationTime + 2 * pollInterval)

\* C14 witness: the call made by startSession has ended after five QR
\* attempts that each ran out their window.
C14_Witness ==
  /\ pc = "ea_done"
  /\ authCaller = "startSession"
  /\ authError = "qr"
  /\ attempts = maxQrCodeAttempts

\* C15: the server starts listening only in the step in which startSession
\* completes normally; when the status query of startSession fails, its
\* start request fails or its ensureAuthenticated raises, the process exits
\* in that step, and an exited process never listens nor serves a webhook.
C15_StartFailureIsFatal ==
  /\ [](/\ server = "exited" => pc = "exited" /\ bc = "idle"
        /\ server = "booting" => bc = "idle"
        /\ server = "listening" =>
             \/ firstStatus = "WORKING"
             \/ ssAuth = 1 /\ startRes # "failed")
  /\ [][ /\ server = "exited" => server' = "exited" /\ pc' = "exited"
         /\ server' = "listening" /\ server # "listening" =>
              \/ pc = "ss_check" /\ firstStatus' = "WORKING"
              \/ pc = "ea_done" /\ authCaller = "startSession" /\ authResult = "returned"
         /\ pc = "ss_check" /\ firstStatus' = "ERR" => server' = "exited"
         /\ pc = "ss_start" /\ startRes' = "failed" => server' = "exited"
         /\ pc = "ea_done" /\ authCaller = "startSession" /\ authResult = "raised" =>
              server' = "exited" ]_vars

\* C15 witness: the start request failed and the process has exited.
C15_Witness ==
  /\ server = "exited"
  /\ startRes = "failed"
  /\ startReqs = 1

\* C16: a status query answered with HTTP 404 yields the normal result with
\* status FAILED and no identity, which the caller handles as it handles the
\* status FAILED; a query that fails in any other way yields no result and
\* is raised to the caller, and every other answer is passed on unchanged.
C16_NotFoundIsFailed ==
  /\ [](/\ query.response = "404" =>
             /\ query.result = [ok |-> TRUE, status |-> "FAILED", me |-> "null"]
             /\ observed = "FAILED"
        /\ query.response = "ERR" => ~query.result.ok
        /\ query.response \in Responses \ {"404", "ERR"} =>
             query.result.ok /\ query.result.status = query.response)
  /\ [][ /\ pc \in {"ea_check", "wq_poll"} /\ observed' # observed =>
              CASE query'.response = "404" ->
                     pc' = "ea_done" /\ authResult' = "raised" /\ authError' = "unexpected"
                [] query'.response = "ERR" ->
                     pc' = "ea_done" /\ authResult' = "raised" /\ authError' = "transport"
                [] OTHER -> authError' # "transport"
         /\ pc = "wa_poll" /\ elapsed < qrCodeExpirationTime /\ pc' # pc =>
              \/ query'.response = "ERR" /\ attempts' = attempts + 1 /\ pc' = "qr_fetch"
              \/ query'.response = "WORKING" /\ authResult' = "returned"
         /\ pc = "wa_poll" /\ elapsed' # elapsed =>
              query'.response \notin {"ERR", "WORKING"} /\ attempts' = attempts ]_vars

\* C16 witness: inside a QR window the status query was answered with 404
\* and the poll went on with the status FAILED.
C16_Witness ==
  /\ pc = "wa_poll"
  /\ query.response = "404"
  /\ query.result.status = "FAILED"
  /\ elapsed > 0

\* The calls recorded for a chat that have not finished yet.
InFlight(lg) ==
  Cardinality({k \in 1..Len(lg.files) : lg.files[k].res = "pending"})
    + Cardinality({k \in 1..Len(lg.links) : lg.links[k].res = "pending"})

\* C19: within one broadcastNotice call the chats are handled one after the
\* other: at most one remote call is under way at any time, it belongs to
\* the chat at the loop's position, and the loop advances by one position
\* only when every call made for the current chat, its link-preview
\* fallback included, has finished.
C19_Sequential ==
  /\ [](bc = "running" =>
          /\ InFlight(chat) <= 1
          /\ Len(outcomes) = i - 1
          /\ \A k \in 1..Len(outcomes) :
               outcomes[k].file # "pending" /\ outcomes[k].link # "pending"
          /\ \A k \in 1..Len(chat.files) : chat.files[k].chatId = whatsappGroupIds[i]
          /\ \A k \in 1..Len(chat.links) : chat.links[k].chatId = whatsappGroupIds[i]
          /\ pc = "dl" => chat.files = <<>> /\ chat.links = <<>>
          /\ pc = "sf_post" => chat.files[Len(chat.files)].res = "pending"
          /\ pc = "lp_post" => chat.links[Len(chat.links)].res = "pending"
          /\ pc = "chat_done" => InFlight(chat) = 0)
  /\ [][bc = "running" /\ i' # i =>
          /\ i' = i + 1
          /\ pc = "chat_done"
          /\ InFlight(chat) = 0
          /\ chat.files # <<>> \/ chat.links # <<>>]_vars

\* C19 witness: the first chat ended with its fallback and the second
\* chat's fallback is being posted.
C19_Witness ==
  /\ bc = "running"
  /\ i = 2
  /\ pc = "lp_post"
  /\ Len(outcomes) = 1
  /\ outcomes[1].link \in {"ok", "failed"}

\* C20 as stated: a send that finds the session FAILED or not found does not
\* fail on that status, since a start request is issued and authentication
\* is driven first.
C20_SendStartsSession ==
  /\ pc = "ea_done"
  /\ authCaller \in {"sendFileMessage", "sendLinkPreview"}
  /\ observed = "FAILED"
  /\ qrFetches = 0
  => authResult # "raised"

\* C20 amended: startSession runs at process start only. A send calls
\* ensureAuthenticated, and when that observes FAILED (or not found) outside
\* a QR window it raises 'Unexpected session status' at once: no start
\* request is issued while the server is listening, and the send whose
\* ensureAuthenticated raised posts nothing and fails.
C20_SendOnlyChecks ==
  /\ [](/\ /\ pc = "ea_done"
           /\ authCaller \in {"sendFileMessage", "sendLinkPreview"}
           /\ observed = "FAILED"
           /\ qrFetches = 0
           => authResult = "raised" /\ authError = "unexpected"
        /\ \A k \in 1..Len(chat.files) :
             chat.files[k].auth = "raised" =>
               ~chat.files[k].posted /\ chat.files[k].res = "failed"
        /\ \A k \in 1..Len(chat.links) :
             chat.links[k].auth = "raised" =>
               ~chat.links[k].posted /\ chat.links[k].res = "failed")
  /\ [][ /\ server = "listening" =>
              startReqs' = startReqs /\ ssAuth' = ssAuth /\ pc' # "ss_start"
         /\ /\ pc = "ea_check"
            /\ authCaller \in {"sendFileMessage", "sendLinkPreview"}
            /\ observed' = "FAILED"
            => pc' = "ea_done" /\ authResult' = "raised" ]_vars

\* C20 witness: the ensureAuthenticated of a sendFileMessage was answered
\* with 404 and has raised on the FAILED status.
C20_Witness ==
  /\ pc = "ea_done"
  /\ authCaller = "sendFileMessage"
  /\ query.response = "404"
  /\ observed = "FAILED"
  /\ authError = "unexpected"
  /\ server = "listening"

\* C17: a buffer of S > 50 MB bytes is split into ceil(S / C) parts, C being
\* 50 MB: part k (counted from 1) covers the bytes [(k-1)*C, min(k*C, S)),
\* is non-empty and at most C bytes long, only the last may be shorter, each
\* part starts where the one before ends, the first starts at 0 and, when
\* the split has returned, the last ends at S.
C17_SplitCoversBuffer ==
  parts > 0 =>
    LET S == chat.size
        C == maxSize
        F == chat.files
    IN
    /\ S > C
    /\ parts * C >= S
    /\ (parts - 1) * C < S
    /\ Len(F) \in 1..parts
    /\ F[1].from = 0
    /\ \A k \in 1..Len(F) :
         /\ F[k].from = (k - 1) * C
         /\ F[k].to = IF k * C < S THEN k * C ELSE S
         /\ F[k].from < F[k].to
         /\ F[k].to <= S
         /\ F[k].to - F[k].from <= C
         /\ k < parts => F[k].to - F[k].from = C
         /\ k > 1 => F[k].from = F[k - 1].to
    /\ splitRes = "returned" => Len(F) = parts /\ F[parts].to = S

\* C17 witness: a buffer of twice 50 MB and one byte went out in three
\* parts, the last of one byte.
C17_Witness ==
  /\ splitRes = "returned"
  /\ chat.size = 2 * maxSize + 1
  /\ Len(chat.files) = 3
  /\ chat.files[3].to - chat.files[3].from = 1

\* C18: the parts of a split go out in increasing order, part k+1 being
\* handed to sendFileMessage only after part k's send has returned and the
\* 2 s pause after it has passed.
C18_PartsInOrder ==
  /\ [](parts > 0 =>
          /\ \A k \in 1..Len(chat.files) :
               /\ chat.files[k].filename.part = k
               /\ chat.files[k].filename.of = parts
               /\ k < Len(chat.files) => chat.files[k].res = "ok"
          /\ splitRes # "returned" => paused = partPause * (Len(chat.files) - 1)
          /\ splitRes = "returned" => paused = partPause * parts)
  /\ [][Len(chat'.files) # Len(chat.files) =>
          /\ Len(chat'.files) = Len(chat.files) + 1
          /\ chat.files # <<>> =>
               /\ pc = "sp_pause"
               /\ chat.files[Len(chat.files)].res = "ok"
               /\ paused' = paused + partPause]_vars

\* C18 witness: the second part is being posted after the first was sent
\* and one pause has passed.
C18_Witness ==
  /\ pc = "sf_post"
  /\ Len(chat.files) = 2
  /\ chat.files[1].res = "ok"
  /\ paused = partPause

====
